---- MODULE Spec2Model ----
(***************************************************************************)
(* A model of the Career-Coach dialogue layer of SkyHire:                  *)
(*   chatbot/dialogue_manager.py   UserProfile, ConversationContext,       *)
(*                                 DialogueManager                         *)
(*   chatbot/intent_classifier.py  CareerCoachChatbot                      *)
(*   chatbot/response_generator.py ResponseGenerator                       *)
(*                                                                         *)
(* Python values are modelled as follows.                                  *)
(*   str        a sequence of one-character strings; the long fixed reply  *)
(*              texts are one-element sequences holding the literal        *)
(*   datetime   <<"datetime", t>>, t a number of days                      *)
(*   isoformat  <<"str", t>>: what datetime.isoformat() returns;           *)
(*              <<"text", n>> is a str that is not an ISO date             *)
(*   None       <<"None">>                                                 *)
(*   dict       a function; a key is present iff it is in its DOMAIN       *)
(*   object     ConversationContext objects live in objs, keyed by their   *)
(*              session_id; self.contexts maps a user to such a key        *)
(***************************************************************************)
EXTENDS Integers, Sequences, FiniteSets, TLC

VARIABLES
    now,                  \* the last value datetime.utcnow() returned (days)
    contexts,             \* DialogueManager.contexts: user_id -> session key | None
    objs,                 \* the ConversationContext objects that are referenced
    user_profiles,        \* DialogueManager.user_profiles: user_id -> profile | None
    disk,                 \* the file at storage_path: NoFile | Corrupt | snapshot
    conversation_history, \* CareerCoachChatbot.conversation_history
    uuids,                \* number of uuid4() values drawn since start-up
    ncalls,               \* calls made since start-up
    ret,                  \* what the last manager operation returned or raised
    faq,                  \* ResponseGenerator.faq["intents"], in table order
    gemini_client,        \* ResponseGenerator.gemini_client is not None
    genret,               \* what the last generate_response call returned
    added,                \* the dicts add_message was asked to append, in order
    pending               \* the process_message calls suspended at their await

vars == <<now, contexts, objs, user_profiles, disk, conversation_history,
          uuids, ncalls, ret, faq, gemini_client, genret, added, pending>>

mgrVars == <<now, contexts, objs, user_profiles, disk, conversation_history,
             uuids, ncalls, ret>>

genVars == <<faq, gemini_client, genret>>

----------------------------------------------------------------------------
(* Bounds of the model *)

\* process_message calls in one run
MaxCalls == 2

\* send_message calls in one run of the chatbot alone
MaxChats == 2

\* generate_response calls in one run of the generator alone
MaxGens == 2

\* contexts created in one run
MaxSessions == 2

\* days the clock may advance in one run
MaxTicks == 1

\* contexts of other users found in the snapshot at start-up
NumBackground == 8

\* turns the first user already has in the snapshot at start-up
PriorTurns == 5

\* add_message calls made on the context that is exercised alone
MaxAdds == 5

\* largest max_history given to that context
MaxHistoryBound == 3

\* process_message calls started by concurrent requests
MaxAsync == 2

----------------------------------------------------------------------------
(* Program constants *)

\* ConversationContext.__init__(max_history=10), from_dict default
DefaultMaxHistory == 10

\* _cleanup_old_contexts(max_age_days=30)
MaxAgeDays == 30

\* process_message: len(self.contexts) % 10 == 0
CleanupEvery == 10

\* _call_gemini: conversation_context[-6:]
PromptTurns == 6

\* send_message: len(self.conversation_history) > 10
ChatHistoryMax == 10

\* None, where a str or a datetime is expected
None == <<"None">>

Epoch == MaxAgeDays + 2

----------------------------------------------------------------------------
(* Python strings *)

Whitespace == {" ", "\t", "\n"}

UpperCase ==
    <<"A", "B", "C", "D", "E", "F", "G", "H", "I", "J", "K", "L", "M">>
        \o <<"N", "O", "P", "Q", "R", "S", "T", "U", "V", "W", "X", "Y", "Z">>
LowerCase ==
    <<"a", "b", "c", "d", "e", "f", "g", "h", "i", "j", "k", "l", "m">>
        \o <<"n", "o", "p", "q", "r", "s", "t", "u", "v", "w", "x", "y", "z">>

UpperSet == {UpperCase[i] : i \in 1..Len(UpperCase)}

LowerOf ==
    [c \in UpperSet |-> LowerCase[CHOOSE i \in 1..Len(UpperCase) : UpperCase[i] = c]]

\* str.lower() on one character
LowerChar(c) == IF c \in UpperSet THEN LowerOf[c] ELSE c

\* str.lower()
Lower(s) == [i \in 1..Len(s) |-> LowerChar(s[i])]

\* sub in s
Contains(sub, s) ==
    \E i \in 1..(Len(s) - Len(sub) + 1) : SubSeq(s, i, i + Len(sub) - 1) = sub

\* s.startswith(p)
StartsWith(s, p) == Len(s) >= Len(p) /\ SubSeq(s, 1, Len(p)) = p

\* s.endswith(p)
EndsWith(s, p) == Len(s) >= Len(p) /\ SubSeq(s, Len(s) - Len(p) + 1, Len(s)) = p

RECURSIVE LStrip(_)
\* str.lstrip()
LStrip(s) ==
    IF s # << >> /\ Head(s) \in Whitespace THEN LStrip(Tail(s)) ELSE s

RECURSIVE RStrip(_)
\* str.rstrip()
RStrip(s) ==
    IF s # << >> /\ s[Len(s)] \in Whitespace
    THEN RStrip(SubSeq(s, 1, Len(s) - 1))
    ELSE s

\* str.strip()
Strip(s) == RStrip(LStrip(s))

\* list[-n:] : Python takes the whole list when n = 0 (-0 is 0)
PyLast(s, n) ==
    IF n < 0 THEN SubSeq(s, 1 - n, Len(s))
    ELSE IF n = 0 \/ n >= Len(s) THEN s
    ELSE SubSeq(s, Len(s) - n + 1, Len(s))

----------------------------------------------------------------------------
(* datetime *)

TypeError == <<"TypeError", 0>>
ValueError == <<"ValueError", 0>>

Datetime(t) == <<"datetime", t>>

\* datetime.isoformat()
Isoformat(d) == <<"str", d[2]>>

\* a str that is not an ISO date
NotADate == <<"text", 0>>

\* datetime.fromisoformat(x): x must be a str, and an ISO date
FromIsoformat(x) ==
    IF x[1] = "str" THEN <<"datetime", x[2]>>
    ELSE IF x[1] = "text" THEN ValueError
    ELSE TypeError

\* whether fromisoformat(x) raises
Raises(x) == FromIsoformat(x) \in {TypeError, ValueError}

\* datetime.utcnow() - timedelta(days=n)
MinusDays(d, n) == <<"datetime", d[2] - n>>

\* d1 < d2 on datetimes
Before(d1, d2) == d1[2] < d2[2]

----------------------------------------------------------------------------
(* UserProfile *)

EmptyDict == << >>

DefaultPreferences ==
    [notification_enabled |-> TRUE, language |-> "fr", theme |-> "light"]

\* UserProfile.__init__(user_id) at time t
NewUserProfile(user_id, t) ==
    [user_id          |-> user_id,
     first_name       |-> None,
     last_name        |-> None,
     email            |-> None,
     role             |-> None,
     experience_years |-> 0,
     languages        |-> <<"Francais">>,
     preferences      |-> DefaultPreferences,
     skills           |-> << >>,
     certifications   |-> << >>,
     last_active      |-> Datetime(t),
     created_at       |-> Datetime(t)]

\* UserProfile.to_dict()
ProfileToDict(p) ==
    [p EXCEPT !.last_active = Isoformat(p.last_active),
              !.created_at  = Isoformat(p.created_at)]

\* whether UserProfile.from_dict(data) returns: the dates it is given parse
ProfileLoads(data) ==
    \A k \in {"last_active", "created_at"} :
        (k \in DOMAIN data /\ data[k] # None) => ~Raises(data[k])

\* UserProfile.from_dict(data) at time t; data holds every key to_dict writes
ProfileFromDict(data, t) ==
    [NewUserProfile(data.user_id, t) EXCEPT
        !.first_name       = data.first_name,
        !.last_name        = data.last_name,
        !.email            = data.email,
        !.role             = data.role,
        !.experience_years = data.experience_years,
        !.languages        = data.languages,
        !.preferences      = data.preferences,
        !.skills           = data.skills,
        !.certifications   = data.certifications,
        !.last_active      = IF data.last_active # None
                             THEN FromIsoformat(data.last_active) ELSE @,
        !.created_at       = IF data.created_at # None
                             THEN FromIsoformat(data.created_at) ELSE @]

----------------------------------------------------------------------------
(* ConversationContext *)

\* str(uuid.uuid4()): the n-th value drawn
Uuid4(n) == <<"uuid", n>>

\* ConversationContext.__init__(user_id, max_history) at time t
NewContext(user_id, max_history, session_id, t) ==
    [user_id        |-> user_id,
     session_id     |-> session_id,
     created_at     |-> Datetime(t),
     last_activity  |-> Datetime(t),
     messages       |-> << >>,
     current_intent |-> None,
     entities       |-> EmptyDict,
     slots          |-> EmptyDict,
     max_history    |-> max_history]

\* an add_message that drops the intent it is given
MessageUntagged(role, content, intent, t) ==
    [timestamp |-> Isoformat(Datetime(t)),
     role      |-> role,
     content   |-> content,
     intent    |-> None]

\* the dict add_message builds
Message(role, content, intent, t) ==
    [timestamp |-> Isoformat(Datetime(t)),
     role      |-> role,
     content   |-> content,
     intent    |-> intent]

\* a truncation that keeps the oldest messages
TruncateFront(messages, max_history) ==
    IF Len(messages) > max_history THEN SubSeq(messages, 1, max_history)
    ELSE messages

\* add_message without its truncation
TruncateNever(messages, max_history) == messages

\* the truncation of add_message
Truncate(messages, max_history) ==
    IF Len(messages) > max_history THEN PyLast(messages, max_history) ELSE messages

\* ConversationContext.add_message(role, content, intent) at time t
AddMessage(ctx, role, content, intent, t) ==
    [ctx EXCEPT
        !.messages      = Truncate(Append(@, Message(role, content, intent, t)),
                                   ctx.max_history),
        !.last_activity = Datetime(t)]

\* ConversationContext.to_dict()
ContextToDict(ctx) ==
    [user_id        |-> ctx.user_id,
     session_id     |-> ctx.session_id,
     created_at     |-> Isoformat(ctx.created_at),
     last_activity  |-> Isoformat(ctx.last_activity),
     current_intent |-> ctx.current_intent,
     entities       |-> ctx.entities,
     slots          |-> ctx.slots,
     messages       |-> ctx.messages]

\* whether ConversationContext.from_dict(data) returns: the keys it indexes
\* are there and the dates parse
ContextLoads(data) ==
    /\ {"user_id", "created_at", "last_activity"} \subseteq DOMAIN data
    /\ ~Raises(data.created_at)
    /\ ~Raises(data.last_activity)

\* from_dict that does not restore the messages
ContextFromDictNoHistory(data) ==
    [user_id        |-> data.user_id,
     session_id     |-> data.session_id,
     created_at     |-> FromIsoformat(data.created_at),
     last_activity  |-> FromIsoformat(data.last_activity),
     messages       |-> << >>,
     current_intent |-> data.current_intent,
     entities       |-> data.entities,
     slots          |-> data.slots,
     max_history    |-> DefaultMaxHistory]

\* ConversationContext.from_dict(data); data holds every key to_dict writes
ContextFromDict(data) ==
    [user_id        |-> data.user_id,
     session_id     |-> data.session_id,
     created_at     |-> FromIsoformat(data.created_at),
     last_activity  |-> FromIsoformat(data.last_activity),
     messages       |-> data.messages,
     current_intent |-> data.current_intent,
     entities       |-> data.entities,
     slots          |-> data.slots,
     max_history    |-> IF "max_history" \in DOMAIN data
                        THEN data.max_history ELSE DefaultMaxHistory]

----------------------------------------------------------------------------
(* GeminiClient: what one attempt to obtain a completion does.             *)
(*   text          generate_text returns response.text                     *)
(*   exception     generate_text raises (service, network, malformed)      *)
(*   malformed     generate_text returns None: response.text was not a str *)
(*   no_key        GeminiClient() raises ValueError: no GEMINI_API_KEY     *)
(*   import_error  the google.generativeai package cannot be imported      *)

T_Ok == <<"O", "k", ".">>
T_AiOk == <<"A", "I", ":", " ", "O", "k">>
T_Spaces == <<" ", " ">>
T_PadOk == <<" ", "O", "k", ".", " ">>

GeminiTexts == {T_Ok, T_AiOk, T_Spaces, T_PadOk, << >>}

Outcome(kind, text) == [kind |-> kind, text |-> text]

GeminiOutcomes ==
    {Outcome("text", x) : x \in GeminiTexts}
        \cup {Outcome(k, << >>) : k \in {"exception", "no_key", "import_error"}}

\* whether the service itself is called under this outcome
ServiceCalled(o) == o.kind \in {"text", "exception"}

----------------------------------------------------------------------------
(* CareerCoachChatbot *)

GREETING_REPLY == <<"Bonjour ! Je suis votre conseiller carriere specialise dans l'aviation. Comment puis-je vous aider aujourd'hui pour votre projet de devenir hotesse de l'air ou steward ?">>
EMPTY_REPLY == <<"Bonjour ! Comment puis-je vous aider dans votre projet de carriere dans l'aviation ?">>
THANKS_REPLY == <<"Je vous en prie ! N'hesitez pas si vous avez d'autres questions sur votre carriere dans l'aviation.">>
NO_GEMINI_REPLY == <<"Je suis un assistant specialise dans les carrieres de l'aviation. Posez-moi vos questions sur les metiers de PNC, les formations, les entretiens, ou tout autre sujet lie a l'aviation civile !">>
CHAT_UNAVAILABLE == <<"Service Gemini non disponible pour le moment.">>
CHAT_ERROR == <<"Desole, une erreur s'est produite lors du traitement de votre demande.">>

\* _is_greeting: greetings
Greetings ==
    {<<"b", "o", "n", "j", "o", "u", "r">>, <<"s", "a", "l", "u", "t">>,
     <<"h", "e", "l", "l", "o">>, <<"h", "i">>,
     <<"c", "o", "u", "c", "o", "u">>, <<"h", "e", "y">>}

\* _is_thanks: thanks
Thanks ==
    {<<"m", "e", "r", "c", "i">>,
     <<"t", "h", "a", "n", "k", " ", "y", "o", "u">>,
     <<"t", "h", "a", "n", "k", "s">>,
     <<"m", "e", "r", "c", "i", " ", "b", "e", "a", "u", "c", "o", "u", "p">>}

\* _is_greeting without text.lower()
IsGreetingCaseSensitive(text) == \E g \in Greetings : Contains(g, text)

\* CareerCoachChatbot._is_greeting
IsGreeting(text) == \E g \in Greetings : Contains(g, Lower(text))

\* CareerCoachChatbot._is_thanks
IsThanks(text) == \E g \in Thanks : Contains(g, Lower(text))

\* the prefixes of re.sub(r'^(Assistant|AI|Bot):\s*', '', ...)
CleanPrefixes ==
    {<<"A", "s", "s", "i", "s", "t", "a", "n", "t", ":">>,
     <<"A", "I", ":">>, <<"B", "o", "t", ":">>}

\* re.sub(r'^(Assistant|AI|Bot):\s*', '', s)
DropPrefix(s) ==
    IF \E p \in CleanPrefixes : StartsWith(s, p)
    THEN LET p == CHOOSE q \in CleanPrefixes : StartsWith(s, q)
         IN  LStrip(SubSeq(s, Len(p) + 1, Len(s)))
    ELSE s

SentenceEnds == {<<".">>, <<"!">>, <<"?">>}

\* CareerCoachChatbot._clean_response
CleanResponse(response) ==
    LET r == DropPrefix(Strip(response))
    IN  IF r # << >> /\ ~(\E e \in SentenceEnds : EndsWith(r, e))
        THEN r \o <<".">>
        ELSE r

\* one entry of conversation_history
Turn(role, content) == [role |-> role, content |-> content]

\* the prompt _call_gemini builds: the preamble, the turns, the new message
Prompt(user_message, conversation_context) ==
    [preamble |-> "career_context",
     turns    |-> IF conversation_context # << >>
                  THEN PyLast(conversation_context, PromptTurns) ELSE << >>,
     message  |-> user_message]

\* CareerCoachChatbot._call_gemini: the text it returns
CallGemini(user_message, conversation_context, o) ==
    CASE o.kind = "text"         -> CleanResponse(o.text)
      [] o.kind = "import_error" -> CHAT_UNAVAILABLE
      [] OTHER                   -> CHAT_ERROR

\* the prompts _call_gemini sends to the service
PromptsSent(user_message, conversation_context, o) ==
    IF ServiceCalled(o) THEN <<Prompt(user_message, conversation_context)>> ELSE << >>

\* the ChatResponse dataclass; confidence in tenths
ChatResponse(response, confidence, history, prompts) ==
    [response   |-> response,
     confidence |-> confidence,
     history    |-> history,
     prompts    |-> prompts]

\* the trailing truncation of conversation_history
TrimHistory(h) == IF Len(h) > ChatHistoryMax THEN PyLast(h, ChatHistoryMax) ELSE h

\* CareerCoachChatbot.send_message: the ChatResponse, the new
\* conversation_history and the prompts sent to the service
SendMessage(use_gemini, history, user_message, o) ==
    IF Strip(user_message) = << >>
    THEN ChatResponse(EMPTY_REPLY, 10, history, << >>)
    ELSE IF IsGreeting(user_message)
    THEN ChatResponse(GREETING_REPLY, 10, history, << >>)
    ELSE IF IsThanks(user_message)
    THEN ChatResponse(THANKS_REPLY, 10, history, << >>)
    ELSE IF use_gemini
    THEN LET h1    == Append(history, Turn("user", user_message))
             reply == CallGemini(user_message, h1, o)
             h2    == Append(h1, Turn("assistant", reply))
         IN  ChatResponse(reply, 9, TrimHistory(h2),
                          PromptsSent(user_message, h1, o))
    ELSE ChatResponse(NO_GEMINI_REPLY, 10, history, << >>)

----------------------------------------------------------------------------
(* dict *)

\* d[k] = v
Put(d, k, v) == [x \in (DOMAIN d) \cup {k} |-> IF x = k THEN v ELSE d[x]]

\* del d[k]
Del(d, k) == [x \in (DOMAIN d) \ {k} |-> d[x]]

----------------------------------------------------------------------------
(* DialogueManager.  Its state is the record                               *)
(*   [contexts, objs, user_profiles, disk, history, uuids, held]           *)
(* and every method is an operator from that record to the next one; held  *)
(* is the set of context objects that suspended calls still refer to.      *)
(* io is what the file system does to the writes of one operation:         *)
(*   ok           open(..., 'w') and json.dump succeed                     *)
(*   open_fails   open raises: the file is left as it was                  *)
(*   write_fails  json.dump raises after open truncated the file           *)
(* The file is absent (none), holds a JSON document (json), holds text     *)
(* that json.load rejects (corrupt), or cannot be opened (unreadable).     *)

SaveOutcomes == {"ok", "open_fails", "write_fails"}

NoFile == [state |-> "none", data |-> << >>]
Corrupt == [state |-> "corrupt", data |-> << >>]
Unreadable == [state |-> "unreadable", data |-> << >>]
JsonFile(data) == [state |-> "json", data |-> data]

EmptyManager(file) ==
    [contexts      |-> EmptyDict,
     objs          |-> EmptyDict,
     user_profiles |-> EmptyDict,
     disk          |-> file,
     history       |-> << >>,
     uuids         |-> 0,
     held          |-> {}]

\* reference counting: a context object nothing refers to is freed
Release(M) ==
    [M EXCEPT !.objs = [k \in {x \in DOMAIN @ :
                                  \/ x \in M.held
                                  \/ \E u \in DOMAIN M.contexts : M.contexts[u] = x}
                          |-> @[k]]]

\* the context object a user's entry refers to
ContextOf(M, u) == M.objs[M.contexts[u]]

\* the dict _save_contexts serialises
Snapshot(M, t) ==
    [contexts     |-> [u \in DOMAIN M.contexts |-> ContextToDict(ContextOf(M, u))],
     profiles     |-> [u \in DOMAIN M.user_profiles |->
                          ProfileToDict(M.user_profiles[u])],
     last_updated |-> Isoformat(Datetime(t))]

\* DialogueManager._save_contexts
SaveContexts(M, t, io) ==
    [M EXCEPT !.disk = CASE io = "ok"          -> JsonFile(Snapshot(M, t))
                         [] io = "open_fails"  -> @
                         [] io = "write_fails" -> Corrupt]

\* whether the try block of _load_contexts runs to its end
Loads(file) ==
    \/ file.state = "none"
    \/ /\ file.state = "json"
       /\ \A u \in DOMAIN file.data.contexts : ContextLoads(file.data.contexts[u])
       /\ \A u \in DOMAIN file.data.profiles : ProfileLoads(file.data.profiles[u])

\* _load_contexts whose except branch leaves the contexts it has assigned
LoadContextsKeeps(M, t) ==
    IF M.disk.state = "json"
       /\ \A u \in DOMAIN M.disk.data.contexts :
             ContextLoads(M.disk.data.contexts[u])
    THEN LET data == M.disk.data
             loaded == [u \in DOMAIN data.contexts |->
                           ContextFromDict(data.contexts[u])]
         IN  [M EXCEPT
                !.contexts = [u \in DOMAIN loaded |-> loaded[u].session_id],
                !.objs = [k \in {loaded[u].session_id : u \in DOMAIN loaded} |->
                             loaded[CHOOSE u \in DOMAIN loaded :
                                        loaded[u].session_id = k]],
                !.user_profiles =
                    IF \A u \in DOMAIN data.profiles : ProfileLoads(data.profiles[u])
                    THEN [u \in DOMAIN data.profiles |->
                             ProfileFromDict(data.profiles[u], t)]
                    ELSE EmptyDict]
    ELSE [M EXCEPT !.contexts = EmptyDict, !.objs = EmptyDict,
                   !.user_profiles = EmptyDict]

\* DialogueManager._load_contexts at time t
LoadContexts(M, t) ==
    IF M.disk.state = "json" /\ Loads(M.disk)
    THEN LET data == M.disk.data
             loaded == [u \in DOMAIN data.contexts |->
                           ContextFromDict(data.contexts[u])]
         IN  [M EXCEPT
                !.contexts = [u \in DOMAIN loaded |-> loaded[u].session_id],
                !.objs = [k \in {loaded[u].session_id : u \in DOMAIN loaded} |->
                             loaded[CHOOSE u \in DOMAIN loaded :
                                        loaded[u].session_id = k]],
                !.user_profiles = [u \in DOMAIN data.profiles |->
                                      ProfileFromDict(data.profiles[u], t)]]
    ELSE [M EXCEPT !.contexts = EmptyDict, !.objs = EmptyDict,
                   !.user_profiles = EmptyDict]

\* DialogueManager.__init__ over the file found at storage_path
NewManager(file, uuids0, t) ==
    LoadContexts([EmptyManager(file) EXCEPT !.uuids = uuids0], t)

\* what an operator that may raise yields
Outcome2(raised, M) == [raised |-> raised, M |-> M, ran |-> FALSE]

\* DialogueManager._cleanup_old_contexts(max_age_days) at time t
CleanupOldContexts(M, max_age_days, t, io) ==
    LET cutoff == MinusDays(Datetime(t), max_age_days)
        parsed(u) == FromIsoformat(ContextOf(M, u).last_activity)
    IN  IF \E u \in DOMAIN M.contexts : parsed(u) = TypeError
        THEN Outcome2(TRUE, M)
        ELSE LET to_remove == {u \in DOMAIN M.contexts : Before(parsed(u), cutoff)}
             IN  Outcome2(FALSE,
                     SaveContexts(
                         Release([M EXCEPT !.contexts =
                                     [u \in (DOMAIN @) \ to_remove |-> @[u]]]),
                         t, io))

\* get_or_create_context without its membership test
GetOrCreateContextAlways(M, user_id, t, io) ==
    LET sid == Uuid4(M.uuids)
    IN  SaveContexts(
            Release([M EXCEPT
               !.contexts = Put(@, user_id, sid),
               !.objs = Put(@, sid, NewContext(user_id, DefaultMaxHistory, sid, t)),
               !.uuids = @ + 1]),
            t, io)

\* DialogueManager.get_or_create_context
GetOrCreateContext(M, user_id, t, io) ==
    IF user_id \notin DOMAIN M.contexts
    THEN LET sid == Uuid4(M.uuids)
         IN  SaveContexts(
                 [M EXCEPT
                    !.contexts = Put(@, user_id, sid),
                    !.objs = Put(@, sid,
                                 NewContext(user_id, DefaultMaxHistory, sid, t)),
                    !.uuids = @ + 1],
                 t, io)
    ELSE M

\* get_user_profile that builds a new profile at every call
GetUserProfileAlways(M, user_id, t, io) ==
    SaveContexts(
        [M EXCEPT !.user_profiles = Put(@, user_id, NewUserProfile(user_id, t))],
        t, io)

\* get_user_profile that does not save the profile it creates
GetUserProfileUnsaved(M, user_id, t, io) ==
    IF user_id \notin DOMAIN M.user_profiles
    THEN [M EXCEPT !.user_profiles = Put(@, user_id, NewUserProfile(user_id, t))]
    ELSE M

\* DialogueManager.get_user_profile
GetUserProfile(M, user_id, t, io) ==
    IF user_id \notin DOMAIN M.user_profiles
    THEN SaveContexts(
             [M EXCEPT !.user_profiles = Put(@, user_id, NewUserProfile(user_id, t))],
             t, io)
    ELSE M

\* end_session that empties the history and keeps the context
EndSessionKeeps(M, user_id, t, io) ==
    IF user_id \in DOMAIN M.contexts
    THEN SaveContexts([M EXCEPT !.objs[M.contexts[user_id]].messages = << >>],
                      t, io)
    ELSE M

\* end_session that also forgets the user's profile
EndSessionForgets(M, user_id, t, io) ==
    IF user_id \in DOMAIN M.contexts
    THEN SaveContexts(
             Release([M EXCEPT
                !.contexts = Del(@, user_id),
                !.user_profiles = [u \in (DOMAIN @) \ {user_id} |-> @[u]]]),
             t, io)
    ELSE M

\* end_session that deletes the context only when the save succeeds
EndSessionIfSaved(M, user_id, t, io) ==
    IF user_id \in DOMAIN M.contexts /\ io = "ok"
    THEN SaveContexts(Release([M EXCEPT !.contexts = Del(@, user_id)]), t, io)
    ELSE M

\* DialogueManager.end_session: the state after it
EndSession(M, user_id, t, io) ==
    IF user_id \in DOMAIN M.contexts
    THEN SaveContexts(Release([M EXCEPT !.contexts = Del(@, user_id)]), t, io)
    ELSE M

\* DialogueManager.end_session: what it returns
EndSessionResult(M, user_id) == user_id \in DOMAIN M.contexts

GENERAL_CHAT == <<"General_Chat">>

\* the "response" dict process_message builds
Response(chat, intent) ==
    [text        |-> chat.response,
     intent      |-> intent,
     confidence  |-> chat.confidence,
     suggestions |-> << >>,
     source      |-> "generated"]

\* process_message up to its two add_message calls and the save
ProcessTurn(M, user_id, message, t, io, o) ==
    LET M1 == GetUserProfile(M, user_id, t, io)
        M2 == [M1 EXCEPT !.user_profiles[user_id].last_active = Datetime(t)]
        M3 == GetOrCreateContext(M2, user_id, t, io)
        sid == M3.contexts[user_id]
        chat == SendMessage(TRUE, M3.history, message, o)
        intent == GENERAL_CHAT
        c1 == [M3.objs[sid] EXCEPT !.current_intent = intent]
        c2 == AddMessage(c1, "user", message, intent, t)
        c3 == AddMessage(c2, "assistant", Response(chat, intent).text, intent, t)
    IN  [M |-> SaveContexts([M3 EXCEPT !.objs[sid] = c3,
                                        !.history = chat.history], t, io),
         context  |-> c3,
         response |-> Response(chat, intent),
         prompts  |-> chat.prompts]

\* a periodic clean-up triggered by the number of profiles
PeriodicCleanupByProfiles(M, t, io) ==
    IF Cardinality(DOMAIN M.user_profiles) % CleanupEvery = 0
    THEN [CleanupOldContexts(M, MaxAgeDays, t, io) EXCEPT !.ran = TRUE]
    ELSE Outcome2(FALSE, M)

\* the periodic clean-up of process_message; ran tells whether
\* _cleanup_old_contexts was called
PeriodicCleanup(M, t, io) ==
    IF Cardinality(DOMAIN M.contexts) % CleanupEvery = 0
    THEN [CleanupOldContexts(M, MaxAgeDays, t, io) EXCEPT !.ran = TRUE]
    ELSE Outcome2(FALSE, M)

\* DialogueManager.process_message: the state after it, whether it raised,
\* and the dict it returns when it does not
ProcessMessage(M, user_id, message, t, io, o) ==
    LET turn == ProcessTurn(M, user_id, message, t, io, o)
        cl == PeriodicCleanup(turn.M, t, io)
    IN  [M        |-> cl.M,
         raised   |-> cl.raised,
         cleanup  |-> cl.ran,
         prompts  |-> turn.prompts,
         response |-> turn.response,
         context  |-> ContextToDict(turn.context),
         user_profile |-> ProfileToDict(cl.M.user_profiles[user_id])]

\* whether process_message(message) is suspended at generate_text: the
\* message is not answered by send_message itself and GeminiClient() is built
Suspends(message, key) ==
    /\ Strip(message) # << >>
    /\ ~IsGreeting(message)
    /\ ~IsThanks(message)
    /\ key

\* a call suspended at its await: its arguments, the context object its
\* local variable refers to and the prompt it sent
Task(user_id, message, sid, prompt) ==
    [user |-> user_id, message |-> message, sid |-> sid, prompt |-> prompt,
     ended |-> FALSE]

\* process_message from its first line to the await of generate_text
BeginMessage(M, user_id, message, t, io) ==
    LET M1 == GetUserProfile(M, user_id, t, io)
        M2 == [M1 EXCEPT !.user_profiles[user_id].last_active = Datetime(t)]
        M3 == GetOrCreateContext(M2, user_id, t, io)
        sid == M3.contexts[user_id]
        h1 == Append(M3.history, Turn("user", message))
    IN  [M    |-> [M3 EXCEPT !.history = h1, !.held = @ \cup {sid}],
         task |-> Task(user_id, message, sid, Prompt(message, h1))]

\* a resumed call that looks its context up again instead of using the
\* one it fetched before the await
ResumeMessageRefetch(M, task, t, io, o) ==
    LET reply == CallGemini(task.message, M.history, o)
        h2 == TrimHistory(Append(M.history, Turn("assistant", reply)))
        chat == ChatResponse(reply, 9, h2, <<task.prompt>>)
        intent == GENERAL_CHAT
        M0 == GetOrCreateContext(M, task.user, t, io)
        sid == M0.contexts[task.user]
        c1 == [M0.objs[sid] EXCEPT !.current_intent = intent]
        c2 == AddMessage(c1, "user", task.message, intent, t)
        c3 == AddMessage(c2, "assistant", Response(chat, intent).text, intent, t)
        M4 == SaveContexts([M0 EXCEPT !.objs[sid] = c3, !.history = h2], t, io)
        cl == PeriodicCleanup(M4, t, io)
    IN  [M        |-> cl.M,
         raised   |-> cl.raised,
         cleanup  |-> cl.ran,
         prompts  |-> chat.prompts,
         response |-> Response(chat, intent),
         context  |-> ContextToDict(c3),
         user_profile |-> ProfileToDict(cl.M.user_profiles[task.user])]

\* process_message from the return of generate_text (o: what it returned
\* or raised) to its end, at time t
ResumeMessage(M, task, t, io, o) ==
    LET reply == CallGemini(task.message, M.history, o)
        h2 == TrimHistory(Append(M.history, Turn("assistant", reply)))
        chat == ChatResponse(reply, 9, h2, <<task.prompt>>)
        intent == GENERAL_CHAT
        sid == task.sid
        c1 == [M.objs[sid] EXCEPT !.current_intent = intent]
        c2 == AddMessage(c1, "user", task.message, intent, t)
        c3 == AddMessage(c2, "assistant", Response(chat, intent).text, intent, t)
        M4 == SaveContexts([M EXCEPT !.objs[sid] = c3, !.history = h2], t, io)
        cl == PeriodicCleanup(M4, t, io)
    IN  [M        |-> cl.M,
         raised   |-> cl.raised,
         cleanup  |-> cl.ran,
         prompts  |-> chat.prompts,
         response |-> Response(chat, intent),
         context  |-> ContextToDict(c3),
         user_profile |-> ProfileToDict(cl.M.user_profiles[task.user])]

----------------------------------------------------------------------------
(* ResponseGenerator.  self.faq is a dict: empty when no FAQ was loaded,   *)
(* else [intents |-> table], the table a sequence of <<name, data>> pairs  *)
(* in the order of the file; data is the entry's dict.                     *)

S_faq == <<"f", "a", "q">>
S_generated == <<"g", "e", "n", "e", "r", "a", "t", "e", "d">>
S_gemini == <<"g", "e", "m", "i", "n", "i">>
S_error == <<"e", "r", "r", "o", "r">>
S_fallback == <<"f", "a", "l", "l", "b", "a", "c", "k">>

GEN_UNAVAILABLE == <<"Desole, le service de generation de reponses n'est pas disponible pour le moment.">>
GEN_DIFFICULTY == <<"Je rencontre des difficultes techniques pour generer une reponse. Veuillez reessayer plus tard.">>
DEFAULT_TEXT == <<"Je ne suis pas sur de comprendre. Pouvez-vous reformuler ?">>

\* generate_response: fallback_responses
FallbackResponses ==
    <<<<"Je n'ai pas pu trouver de reponse appropriee dans ma base de connaissances. Pouvez-vous reformuler votre question ou la poser differemment ?">>,
      <<"Je ne suis pas sur de bien comprendre votre demande. Pourriez-vous la reformuler ?">>,
      <<"Je n'ai pas d'information precise sur ce sujet. Avez-vous une autre question ?">>>>

\* the characters of the model's alphabet for which str.isalnum() is false
NotAlnum == Whitespace \cup {"?", "!", ".", ":", "-", "'", "_"}

\* ''.join(c.lower() for c in s if c.isalnum() or c == '_')
Normalize(s) == Lower(SelectSeq(s, LAMBDA c : c \notin NotAlnum \/ c = "_"))

\* str(x)
Str(x) == IF x = None THEN <<"N", "o", "n", "e">> ELSE x

\* dict.setdefault(k, v)
SetDefault(d, k, v) == IF k \in DOMAIN d THEN d ELSE Put(d, k, v)

\* dict.get(k, v)
Get(d, k, v) == IF k \in DOMAIN d THEN d[k] ELSE v

\* the first index of the table whose entry satisfies P, 0 if none
FirstIndex(table, P(_, _)) ==
    IF \E i \in 1..Len(table) : P(table[i][1], table[i][2])
    THEN CHOOSE i \in 1..Len(table) :
            /\ P(table[i][1], table[i][2])
            /\ \A j \in 1..(i - 1) : ~P(table[j][1], table[j][2])
    ELSE 0

\* a lookup that returns the first entry of the table matching at any tier
FindInFaqTableOrder(F, intent, user_message) ==
    IF DOMAIN F = {} \/ "intents" \notin DOMAIN F THEN 0
    ELSE LET ni == Normalize(Str(intent))
             Matches(name, data) ==
                 \/ ni = Normalize(name)
                 \/ Contains(Normalize(name), ni)
                 \/ Contains(ni, Normalize(name))
                 \/ \E i \in 1..Len(Get(data, "keywords", << >>)) :
                        Contains(Lower(data.keywords[i]), Lower(user_message))
         IN  FirstIndex(F.intents, Matches)

\* ResponseGenerator._find_in_faq: the index of the entry it returns, 0 for None
FindInFaq(F, intent, user_message) ==
    IF DOMAIN F = {} \/ "intents" \notin DOMAIN F THEN 0
    ELSE LET table == F.intents
             ni == Normalize(Str(intent))
             Exact(name, data) == ni = Normalize(name)
             Partial(name, data) ==
                 Contains(Normalize(name), ni) \/ Contains(ni, Normalize(name))
             Keyword(name, data) ==
                 \E i \in 1..Len(Get(data, "keywords", << >>)) :
                     Contains(Lower(data.keywords[i]), Lower(user_message))
             exact == FirstIndex(table, Exact)
             partial == FirstIndex(table, Partial)
         IN  IF exact # 0 THEN exact
             ELSE IF partial # 0 THEN partial
             ELSE FirstIndex(table, Keyword)

\* _generate_with_gemini that returns the text of the service as it is
GenerateWithGeminiUnstripped(client, user_message, o, t) ==
    IF ~client
    THEN [text |-> GEN_UNAVAILABLE,
          suggestions |-> <<"Voir l'aide", "Contacter le support">>]
    ELSE IF o.kind = "text"
    THEN [text |-> o.text, source |-> S_gemini,
          timestamp |-> Isoformat(Datetime(t))]
    ELSE [text |-> GEN_DIFFICULTY, source |-> S_error,
          suggestions |-> <<"Reessayer", "Contacter le support">>]

\* _generate_with_gemini whose except branch sets no source
GenerateWithGeminiUntagged(client, user_message, o, t) ==
    IF ~client
    THEN [text |-> GEN_UNAVAILABLE,
          suggestions |-> <<"Voir l'aide", "Contacter le support">>]
    ELSE IF o.kind = "text"
    THEN [text |-> Strip(o.text), source |-> S_gemini,
          timestamp |-> Isoformat(Datetime(t))]
    ELSE [text |-> GEN_DIFFICULTY,
          suggestions |-> <<"Reessayer", "Contacter le support">>]

\* _generate_with_gemini returning no text when the service raises
GenerateWithGeminiSilent(client, user_message, o, t) ==
    IF ~client
    THEN [text |-> GEN_UNAVAILABLE,
          suggestions |-> <<"Voir l'aide", "Contacter le support">>]
    ELSE IF o.kind = "text"
    THEN [text |-> Strip(o.text), source |-> S_gemini,
          timestamp |-> Isoformat(Datetime(t))]
    ELSE [text |-> << >>]

\* ResponseGenerator._generate_with_gemini: the dict it returns
GenerateWithGemini(client, user_message, o, t) ==
    IF ~client
    THEN [text |-> GEN_UNAVAILABLE,
          suggestions |-> <<"Voir l'aide", "Contacter le support">>]
    ELSE IF o.kind = "text"
    THEN [text |-> Strip(o.text), source |-> S_gemini,
          timestamp |-> Isoformat(Datetime(t))]
    ELSE [text |-> GEN_DIFFICULTY, source |-> S_error,
          suggestions |-> <<"Reessayer", "Contacter le support">>]

\* ResponseGenerator._format_response on a dict
FormatResponse(response_data, intent, context, t) ==
    LET d1 == SetDefault(response_data, "text", DEFAULT_TEXT)
        d2 == SetDefault(d1, "suggestions", << >>)
        d3 == SetDefault(d2, "source",
                         IF Contains(S_faq, Get(d2, "source", << >>))
                         THEN S_faq ELSE S_generated)
        d4 == Put(Put(d3, "intent", intent), "timestamp", Isoformat(Datetime(t)))
    IN  Put(d4, "_debug", [intent |-> intent, context_keys |-> DOMAIN context,
                           response_source |-> d4.source])

\* the dict of the canned fallback, before _format_response
FallbackData(pick) ==
    [text |-> FallbackResponses[pick], source |-> S_fallback,
     suggestions |-> <<"Voir l'aide", "Poser une autre question">>]

\* ResponseGenerator.generate_response: the dict it returns, the FAQ after
\* it (_format_response updates the matched entry in place), the entry
\* matched and whether the generative service was called
GenerateResponse(F, client, user_message, intent, context, o, pick, t) ==
    LET i == FindInFaq(F, intent, user_message)
        found == i # 0 /\ DOMAIN F.intents[i][2] # {}
        formatted == FormatResponse(F.intents[i][2], intent, context, t)
        g == GenerateWithGemini(client, user_message, o, t)
    IN  IF found
        THEN [result |-> formatted,
              faq |-> [F EXCEPT !.intents[i][2] = formatted],
              matched |-> i, called |-> FALSE]
        ELSE IF client /\ Get(g, "text", << >>) # << >>
        THEN [result |-> g, faq |-> F, matched |-> i, called |-> TRUE]
        ELSE [result |-> FormatResponse(FallbackData(pick), intent, context, t),
              faq |-> F, matched |-> i, called |-> client]

----------------------------------------------------------------------------
(* The inputs of generate_response *)

N_CvAdvice == <<"C", "V", "_", "A", "d", "v", "i", "c", "e">>
N_Interview == <<"I", "n", "t", "e", "r", "v", "i", "e", "w", "_", "T", "i", "p", "s">>
I_CvAdviceLower == <<"c", "v", "_", "a", "d", "v", "i", "c", "e">>
I_Unknown == <<"U", "N", "K", "N", "O", "W", "N", "_", "I", "N", "T", "E", "N", "T">>
I_Cv == <<"C", "V">>
I_Punct == <<"?", "!">>

K_Cv == <<"c", "v">>
K_Resume == <<"r", "e", "s", "u", "m", "e">>
K_Entretien == <<"e", "n", "t", "r", "e", "t", "i", "e", "n">>

CV_TEXT == <<"Voici des conseils CV...">>
INTERVIEW_TEXT == <<"Voici des conseils pour l'entretien...">>

GM_CvQuestion == <<"C", "o", "m", "m", "e", "n", "t", " ", "f", "a", "i", "r", "e", " ", "m", "o", "n", " ", "C", "V", " ", "?">>
GM_Help == <<"j", "'", "a", "i", " ", "b", "e", "s", "o", "i", "n", " ", "d", "'", "a", "i", "d", "e", " ", "p", "o", "u", "r", " ", "m", "o", "n", " ", "c", "v">>
GM_Capital == <<"c", "a", "p", "i", "t", "a", "l", "e", " ", "?">>
GM_Entretien == <<"E", "n", "t", "r", "e", "t", "i", "e", "n">>

\* the entry of the FAQ scenario: a text and keywords
CvEntry == [text |-> CV_TEXT, keywords |-> <<K_Cv, K_Resume>>]

\* an entry that names its own source
InterviewEntry ==
    [text |-> INTERVIEW_TEXT, keywords |-> <<K_Entretien>>, source |-> S_faq]

\* the values self.faq may hold after _load_faq
FaqTables ==
    {EmptyDict,
     [intents |-> << >>],
     [intents |-> <<<<N_CvAdvice, CvEntry>>>>],
     [intents |-> <<<<N_Interview, InterviewEntry>>, <<N_CvAdvice, CvEntry>>>>],
     [intents |-> <<<<N_Interview, EmptyDict>>, <<N_CvAdvice, CvEntry>>>>]}

GenIntents == {N_CvAdvice, I_CvAdviceLower, I_Unknown, I_Cv, I_Punct, None}

GenMessages == {GM_CvQuestion, GM_Help, GM_Capital, GM_Entretien}

\* what the generative service does during generate_response
GenOutcomes ==
    {Outcome("text", T_Ok), Outcome("text", T_PadOk), Outcome("text", T_Spaces),
     Outcome("text", << >>),
     Outcome("exception", << >>), Outcome("malformed", << >>)}

----------------------------------------------------------------------------
(* The inputs of the manager's operations *)

M_Bonjour == <<"B", "o", "n", "j", "o", "u", "r">>
M_Merci == <<"m", "e", "r", "c", "i">>
M_Cv == <<"c", "v", " ", "?">>
M_Blank == <<" ">>
M_Machine == <<"m", "a", "c", "h", "i", "n", "e">>
M_Thanks == <<"T", "H", "A", "N", "K", "S">>
M_HiMerci == <<"h", "i", " ", "m", "e", "r", "c", "i">>
M_Vol == <<"V", "o", "l">>

\* the users that call the manager in a run
ActiveUsers == {1, 2}

\* the users whose contexts an earlier run left in the snapshot
BgUser(i) == 10 + i

Users == ActiveUsers \cup {BgUser(i) : i \in 1..(NumBackground + 1)}

\* the messages sent to send_message
ChatMessages ==
    {M_Bonjour, M_Merci, M_Cv, M_Blank, M_Machine, M_Thanks, M_HiMerci, M_Vol,
     << >>}

\* the messages sent to process_message
Messages == {M_Bonjour, M_Cv}

\* what the generative service does during process_message
MgrOutcomes == {Outcome("text", T_AiOk), Outcome("exception", << >>)}

\* what an attempt does given the key found at start-up: without it
\* GeminiClient() raises in every _call_gemini
OutcomesWith(key) == IF key THEN MgrOutcomes ELSE {Outcome("no_key", << >>)}

\* the values utcnow() may return next
Clock == {t \in now..(now + 1) : t <= Epoch + MaxTicks}

----------------------------------------------------------------------------
(* The snapshot found at start-up: written by an earlier run of the        *)
(* manager, replayed here call by call.                                    *)

Call(op, user, message, t, o) ==
    [op |-> op, user |-> user, message |-> message, t |-> t, o |-> o]

RECURSIVE Replay(_, _)
Replay(M, calls) ==
    IF calls = << >> THEN M
    ELSE LET c == Head(calls)
         IN  Replay(IF c.op = "process_message"
                    THEN ProcessMessage(M, c.user, c.message, c.t, "ok", c.o).M
                    ELSE GetOrCreateContext(M, c.user, c.t, "ok"),
                    Tail(calls))

\* the contexts of k other users were fetched, those of the older half of
\* them more than max_age_days ago
BackgroundCalls(k) ==
    [i \in 1..k |->
        Call("get_or_create_context", BgUser(i), << >>,
             IF 2 * i <= k THEN Epoch - MaxAgeDays - 1 ELSE Epoch - MaxAgeDays + 1,
             Outcome("text", T_Ok))]

\* the first user had h turns yesterday
ForegroundCalls(h) ==
    [i \in 1..h |->
        Call("process_message", 1, IF i % 2 = 1 THEN M_Cv ELSE M_Bonjour,
             Epoch - 1, Outcome("text", T_Ok))]

\* uuid4() values are numbered from 0 at start-up, an earlier run's below 0
PriorRun(k, h) ==
    Replay([EmptyManager(NoFile) EXCEPT !.uuids = 0 - (k + 1)],
           BackgroundCalls(k) \o ForegroundCalls(h))

\* the manager states an earlier run may have ended in
PriorRuns == {PriorRun(0, 0), PriorRun(NumBackground, PriorTurns)}

\* a snapshot with two contexts and one profile
GoodFile == PriorRun(1, 1).disk

\* the same with a context entry that lacks created_at
BadContextFile ==
    JsonFile([GoodFile.data EXCEPT
                 !.contexts[BgUser(1)] =
                     [k \in (DOMAIN @) \ {"created_at"} |-> @[k]]])

\* the same with a profile entry whose last_active is not a date
BadProfileFile ==
    JsonFile([GoodFile.data EXCEPT !.profiles[1].last_active = NotADate])

\* what may be found at storage_path at start-up
StoredFiles ==
    {NoFile, Corrupt, Unreadable, GoodFile, BadContextFile, BadProfileFile}

----------------------------------------------------------------------------
(* The manager's state machine *)

\* the manager's state as one record
Mgr ==
    [contexts      |-> contexts,
     objs          |-> objs,
     user_profiles |-> user_profiles,
     disk          |-> disk,
     history       |-> conversation_history,
     uuids         |-> uuids,
     held          |-> {pending[k].sid : k \in DOMAIN pending}]

\* the variables take the fields of M
Becomes(M) ==
    /\ contexts' = M.contexts
    /\ objs' = M.objs
    /\ user_profiles' = M.user_profiles
    /\ disk' = M.disk
    /\ conversation_history' = M.history
    /\ uuids' = M.uuids

\* whether an operation on user_id would create a context
Creates(user_id) == user_id \notin DOMAIN contexts

InitManager ==
    /\ now = Epoch
    /\ \E P \in PriorRuns :
          LET M == NewManager(P.disk, 0, Epoch)
          IN  /\ contexts = M.contexts
              /\ objs = M.objs
              /\ user_profiles = M.user_profiles
              /\ disk = M.disk
              /\ conversation_history = M.history
              /\ uuids = M.uuids
    /\ ncalls = 0
    /\ ret = [op |-> "init"]
    /\ added = << >>
    /\ pending = << >>

\* ResponseGenerator.__init__: _load_faq, then _init_gemini
InitGenerator ==
    /\ faq \in FaqTables
    /\ gemini_client \in BOOLEAN
    /\ genret = [op |-> "init"]

\* the generator of a manager whose FAQ file is missing and whose key is set
IdleGenerator ==
    /\ faq = [intents |-> << >>]
    /\ gemini_client = TRUE
    /\ genret = [op |-> "init"]

\* a manager that starts with no snapshot file
FreshManager ==
    /\ now = Epoch
    /\ contexts = EmptyDict
    /\ objs = EmptyDict
    /\ user_profiles = EmptyDict
    /\ disk = NoFile
    /\ conversation_history = << >>
    /\ uuids = 0
    /\ ncalls = 0
    /\ ret = [op |-> "init"]
    /\ added = << >>
    /\ pending = << >>

Init == InitManager /\ IdleGenerator

\* the suspended calls of u, marked as having had their session ended
SessionEnded(u) ==
    [k \in DOMAIN pending |->
        IF pending[k].user = u THEN [pending[k] EXCEPT !.ended = TRUE]
        ELSE pending[k]]

\* await manager.process_message(user_id, message)
DoProcessMessage(ios) ==
    \E u \in ActiveUsers, m \in Messages, t \in Clock,
       io \in ios, o \in OutcomesWith(gemini_client) :
        /\ ncalls < MaxCalls
        /\ Creates(u) => uuids < MaxSessions
        /\ LET r == ProcessMessage(Mgr, u, m, t, io, o)
           IN  /\ Becomes(r.M)
               /\ ret' = [op |-> "process_message", user |-> u, message |-> m,
                          raised |-> r.raised, prompts |-> r.prompts,
                          cleanup |-> r.cleanup,
                          result |-> IF r.raised THEN << >>
                                     ELSE [response |-> r.response,
                                           context |-> r.context,
                                           user_profile |-> r.user_profile]]
        /\ now' = t
        /\ ncalls' = ncalls + 1
        /\ UNCHANGED <<genVars, added, pending>>

\* manager.get_or_create_context(user_id)
DoGetOrCreateContext(ios) ==
    \E u \in ActiveUsers, t \in Clock, io \in ios :
        /\ Creates(u) => uuids < MaxSessions
        /\ LET M == GetOrCreateContext(Mgr, u, t, io)
           IN  /\ Becomes(M)
               /\ ret' = [op |-> "get_or_create_context", user |-> u,
                          raised |-> FALSE, result |-> ContextOf(M, u)]
        /\ now' = t
        /\ UNCHANGED <<ncalls, genVars, added, pending>>

\* manager.get_user_profile(user_id)
DoGetUserProfile(ios) ==
    \E u \in ActiveUsers, t \in Clock, io \in ios :
        /\ LET M == GetUserProfile(Mgr, u, t, io)
           IN  /\ Becomes(M)
               /\ ret' = [op |-> "get_user_profile", user |-> u,
                          raised |-> FALSE, result |-> M.user_profiles[u]]
        /\ now' = t
        /\ UNCHANGED <<ncalls, genVars, added, pending>>

\* manager.end_session(user_id)
DoEndSession(ios) ==
    \E u \in ActiveUsers, t \in Clock, io \in ios :
        /\ Becomes(EndSession(Mgr, u, t, io))
        /\ ret' = [op |-> "end_session", user |-> u, raised |-> FALSE,
                   result |-> EndSessionResult(Mgr, u),
                   ended |-> IF u \in DOMAIN contexts THEN contexts[u] ELSE None]
        /\ now' = t
        /\ pending' = IF u \in DOMAIN contexts THEN SessionEnded(u) ELSE pending
        /\ UNCHANGED <<ncalls, genVars, added>>

\* manager._cleanup_old_contexts(max_age_days)
DoCleanup(ios) ==
    \E t \in Clock, io \in ios :
        /\ LET r == CleanupOldContexts(Mgr, MaxAgeDays, t, io)
           IN  /\ Becomes(r.M)
               /\ ret' = [op |-> "cleanup_old_contexts", user |-> 0,
                          raised |-> r.raised, result |-> << >>]
        /\ now' = t
        /\ UNCHANGED <<ncalls, genVars, added, pending>>

\* await response_generator.generate_response(user_message, intent, context)
DoGenerateResponse ==
    \E m \in GenMessages, i \in GenIntents, o \in GenOutcomes,
       pick \in 1..Len(FallbackResponses), t \in {now} :
        /\ ncalls < MaxGens
        /\ LET r == GenerateResponse(faq, gemini_client, m, i, EmptyDict, o, pick, t)
           IN  /\ faq' = r.faq
               /\ genret' = [op |-> "generate_response", message |-> m,
                             intent |-> i, o |-> o, result |-> r.result,
                             matched |-> r.matched, called |-> r.called,
                             before |-> faq]
        /\ now' = t
        /\ ncalls' = ncalls + 1
        /\ UNCHANGED <<contexts, objs, user_profiles, disk, conversation_history,
                       uuids, ret, gemini_client, added, pending>>

\* await chatbot.send_message(user_message)
DoSendMessage ==
    \E m \in ChatMessages, o \in GeminiOutcomes :
        /\ ncalls < MaxChats
        /\ LET r == SendMessage(TRUE, conversation_history, m, o)
           IN  /\ conversation_history' = r.history
               /\ ret' = [op |-> "send_message", message |-> m, o |-> o,
                          response |-> r.response, confidence |-> r.confidence,
                          prompts |-> r.prompts]
        /\ ncalls' = ncalls + 1
        /\ UNCHANGED <<now, contexts, objs, user_profiles, disk, uuids, genVars,
                       added, pending>>

\* the file system never fails
Healthy == {"ok"}

Next ==
    \/ DoProcessMessage(Healthy)
    \/ DoGetOrCreateContext(Healthy)
    \/ DoGetUserProfile(Healthy)
    \/ DoEndSession(Healthy)
    \/ DoCleanup(Healthy)

Spec == Init /\ [][Next]_vars

\* what the constructor leaves in ret
Constructed ==
    [op |-> "__init__", user |-> 0, raised |-> FALSE, result |-> << >>]

\* DialogueManager(storage_path) over any file, with or without the key
InitDisk ==
    /\ now = Epoch + MaxTicks
    /\ \E f \in StoredFiles :
          LET M == NewManager(f, 0, now)
          IN  /\ contexts = M.contexts
              /\ objs = M.objs
              /\ user_profiles = M.user_profiles
              /\ disk = M.disk
              /\ conversation_history = M.history
              /\ uuids = M.uuids
    /\ ncalls = 0
    /\ ret = Constructed
    /\ added = << >>
    /\ pending = << >>
    /\ faq = [intents |-> << >>]
    /\ gemini_client \in {key \in BOOLEAN : ~key => disk = NoFile}
    /\ genret = [op |-> "init"]

\* the process restarts: DialogueManager(storage_path) over the file as it is
DoRestart ==
    \E t \in Clock :
        /\ Becomes(NewManager(disk, uuids, t))
        /\ ret' = Constructed
        /\ now' = t
        /\ UNCHANGED <<ncalls, genVars, added, pending>>

\* the contexts and profiles written in the file
OnDisk ==
    IF disk.state = "json"
    THEN [contexts |-> disk.data.contexts, profiles |-> disk.data.profiles]
    ELSE [contexts |-> EmptyDict, profiles |-> EmptyDict]

\* the file holds what memory holds
InSync ==
    /\ OnDisk.contexts = Snapshot(Mgr, now).contexts
    /\ OnDisk.profiles = Snapshot(Mgr, now).profiles

\* the writes of an operation may fail while the file is up to date; once
\* it is stale or damaged the next writes succeed
Faults == IF InSync THEN SaveOutcomes ELSE Healthy

\* the manager over a file system whose writes may fail
NextDisk ==
    \/ DoProcessMessage(Faults)
    \/ DoGetOrCreateContext(Faults)
    \/ DoGetUserProfile(Faults)
    \/ DoEndSession(Faults)
    \/ DoCleanup(Faults)
    \/ DoRestart

SpecDisk == InitDisk /\ [][NextDisk]_vars

\* ConversationContext(user_id, max_history) with any bound, before its
\* first message
InitCtx ==
    /\ now = Epoch
    /\ \E h \in 0..MaxHistoryBound :
          objs = [k \in {Uuid4(0)} |-> NewContext(1, h, Uuid4(0), Epoch)]
    /\ contexts = [u \in {1} |-> Uuid4(0)]
    /\ user_profiles = EmptyDict
    /\ disk = NoFile
    /\ conversation_history = << >>
    /\ uuids = 1
    /\ ncalls = 0
    /\ ret = [op |-> "init"]
    /\ added = << >>
    /\ pending = << >>
    /\ IdleGenerator

\* context.add_message(role, content, intent)
DoAddMessage ==
    \E role \in {"user", "assistant"}, content \in Messages, t \in Clock :
        /\ Len(added) < MaxAdds
        /\ objs' = [k \in DOMAIN objs |->
                       AddMessage(objs[k], role, content, GENERAL_CHAT, t)]
        /\ added' = Append(added, Message(role, content, GENERAL_CHAT, t))
        /\ ret' = [op |-> "add_message", user |-> 1, raised |-> FALSE,
                   result |-> None]
        /\ now' = t
        /\ UNCHANGED <<contexts, user_profiles, disk, conversation_history,
                       uuids, ncalls, genVars, pending>>

\* one context alone
NextCtx == DoAddMessage

SpecCtx == InitCtx /\ [][NextCtx]_vars

\* the response generator alone
InitGen == FreshManager /\ InitGenerator

NextGen == DoGenerateResponse

SpecGen == InitGen /\ [][NextGen]_vars

\* the chatbot alone
InitChat == FreshManager /\ IdleGenerator

NextChat == DoSendMessage

SpecChat == InitChat /\ [][NextChat]_vars

\* the messages sent to process_message by concurrent callers
AsyncMessages == {M_Bonjour, M_Cv, M_Vol}

\* await manager.process_message(user_id, message), up to the point where
\* the event loop takes over: the await of generate_text, or the return
\* when send_message answers by itself
BeginProcessMessage ==
    \E u \in ActiveUsers, m \in AsyncMessages, t \in Clock :
        /\ ncalls < MaxAsync
        /\ Creates(u) => uuids < MaxSessions
        /\ IF Suspends(m, gemini_client)
           THEN LET b == BeginMessage(Mgr, u, m, t, "ok")
                IN  /\ Becomes(b.M)
                    /\ pending' = Put(pending, ncalls + 1, b.task)
                    /\ ret' = [op |-> "await", user |-> u, message |-> m,
                               raised |-> FALSE, task |-> ncalls + 1]
           ELSE LET r == ProcessMessage(Mgr, u, m, t, "ok",
                                        Outcome("text", T_AiOk))
                IN  /\ Becomes(r.M)
                    /\ pending' = pending
                    /\ ret' = [op |-> "process_message", user |-> u,
                               message |-> m, raised |-> r.raised,
                               prompts |-> r.prompts, cleanup |-> r.cleanup,
                               task |-> 0,
                               result |-> IF r.raised THEN << >>
                                          ELSE [response |-> r.response,
                                                context |-> r.context,
                                                user_profile |-> r.user_profile]]
        /\ now' = t
        /\ ncalls' = ncalls + 1
        /\ UNCHANGED <<genVars, added>>

\* generate_text returns or raises and the suspended call k runs to its end
ResumeProcessMessage ==
    \E k \in DOMAIN pending, t \in Clock, o \in MgrOutcomes :
        /\ LET r == ResumeMessage(Mgr, pending[k], t, "ok", o)
               rest == Del(pending, k)
           IN  /\ Becomes(Release([r.M EXCEPT !.held =
                                      {rest[j].sid : j \in DOMAIN rest}]))
               /\ pending' = rest
               /\ ret' = [op |-> "process_message", user |-> pending[k].user,
                          message |-> pending[k].message, raised |-> r.raised,
                          prompts |-> r.prompts, cleanup |-> r.cleanup,
                          task |-> k,
                          result |-> IF r.raised THEN << >>
                                     ELSE [response |-> r.response,
                                           context |-> r.context,
                                           user_profile |-> r.user_profile]]
        /\ now' = t
        /\ UNCHANGED <<ncalls, genVars, added>>

\* a manager that starts with no snapshot file and serves its requests
\* within one day
InitAsync ==
    /\ now = Epoch + MaxTicks
    /\ contexts = EmptyDict
    /\ objs = EmptyDict
    /\ user_profiles = EmptyDict
    /\ disk = NoFile
    /\ conversation_history = << >>
    /\ uuids = 0
    /\ ncalls = 0
    /\ ret = Constructed
    /\ added = << >>
    /\ pending = << >>
    /\ IdleGenerator

\* the calls of concurrent requests, interleaved at the await
NextAsync ==
    \/ BeginProcessMessage
    \/ ResumeProcessMessage
    \/ DoEndSession(Healthy)
    \/ DoGetOrCreateContext(Healthy)

SpecAsync == InitAsync /\ [][NextAsync]_vars

----------------------------------------------------------------------------
(* Claims on the dialogue manager *)

\* the operation the step into the primed state performed
Did(op, u) == ret'.op = op /\ ret'.user = u

\* C1: every context the manager holds, created with the default
\* max_history, has at most max_history messages after every operation.
C1_SlidingWindow ==
    \A k \in DOMAIN objs :
        /\ objs[k].max_history = DefaultMaxHistory
        /\ Len(objs[k].messages) <= objs[k].max_history

\* a turn was added to a context already holding max_history messages: the
\* two new entries are the last two and the two oldest were evicted
C1_Witness ==
    /\ ret.op = "process_message"
    /\ ~ret.raised
    /\ Len(ret.result.context.messages) = DefaultMaxHistory
    /\ ret.result.context.messages[DefaultMaxHistory - 1].content = ret.message
    /\ ret.result.context.messages[1].timestamp # Isoformat(Datetime(now))

\* C2: a process_message call returns a result with a response text and
\* never raises.
C2_NeverRaises ==
    ret.op = "process_message" =>
        /\ ~ret.raised
        /\ "text" \in DOMAIN ret.result.response

\* C3: while no end_session(u) happens, u's entry keeps referring to the
\* same context: get_or_create_context(u) returns it as it was, and the
\* operations on other users leave it untouched.
C3_Idempotent ==
    [][\A u \in Users :
         (u \in DOMAIN contexts /\ ~Did("end_session", u)) =>
            /\ u \in DOMAIN contexts'
            /\ contexts'[u] = contexts[u]
            /\ objs'[contexts[u]].session_id = objs[contexts[u]].session_id
            /\ Did("get_or_create_context", u) =>
                  /\ ret'.result = objs[contexts[u]]
                  /\ objs'[contexts[u]] = objs[contexts[u]]
            /\ ret'.user # u => objs'[contexts[u]] = objs[contexts[u]]
      ]_vars

\* get_or_create_context returned a context that already held a history
C3_Witness ==
    /\ ret.op = "get_or_create_context"
    /\ ret.result.messages # << >>
    /\ ret.result.session_id = contexts[ret.user]

\* C4: end_session(u) removes u's context; a context created for a user is
\* new: its session_id was never drawn before (so it differs from the one
\* just ended and from every other context's) and its history holds
\* nothing but the turn of the call that created it.
C4_SessionReset ==
    [][\A u \in Users :
         /\ Did("end_session", u) => u \notin DOMAIN contexts'
         /\ (ret.op = "end_session" /\ ret.user = u /\ u \in DOMAIN contexts') =>
                contexts'[u] # ret.ended
         /\ (u \notin DOMAIN contexts /\ u \in DOMAIN contexts') =>
                /\ contexts'[u] \notin DOMAIN objs
                /\ contexts'[u][2] >= uuids
                /\ objs'[contexts'[u]].session_id = contexts'[u]
                /\ Did("get_or_create_context", u) =>
                       objs'[contexts'[u]].messages = << >>
                /\ Did("process_message", u) =>
                       /\ Len(objs'[contexts'[u]].messages) = 2
                       /\ objs'[contexts'[u]].messages[1].content = ret'.message
         /\ u \in DOMAIN contexts => contexts[u][2] < uuids
      ]_vars

\* the first user, whose context came from the snapshot, ended that
\* session and was given a new one
C4_Witness ==
    /\ BgUser(1) \in DOMAIN contexts
    /\ ret.op \in {"get_or_create_context", "process_message"}
    /\ ret.user = 1
    /\ 1 \in DOMAIN contexts
    /\ contexts[1][2] >= 0

\* C5: end_session(u) returns whether u had a context, removes that context
\* and nothing else, and changes nothing when u has none (so a second
\* consecutive call returns false and leaves memory and file as they are).
C5_EndSessionFrame ==
    [][\A u \in Users :
         Did("end_session", u) =>
            /\ ret'.result = (u \in DOMAIN contexts)
            /\ user_profiles' = user_profiles
            /\ DOMAIN contexts' = (DOMAIN contexts) \ {u}
            /\ \A v \in DOMAIN contexts' :
                  /\ contexts'[v] = contexts[v]
                  /\ objs'[contexts'[v]] = objs[contexts[v]]
            /\ u \notin DOMAIN contexts =>
                  /\ contexts' = contexts
                  /\ objs' = objs
                  /\ disk' = disk
            /\ (ret.op = "end_session" /\ ret.user = u) =>
                  /\ ret'.result = FALSE
                  /\ <<contexts', objs', user_profiles', disk'>>
                        = <<contexts, objs, user_profiles, disk>>
      ]_vars

\* end_session deleted the context of a user who has a profile, while
\* another user's context was live
C5_Witness ==
    /\ ret.op = "end_session"
    /\ ret.result = TRUE
    /\ ret.user \in DOMAIN user_profiles
    /\ ActiveUsers \ {ret.user} \subseteq DOMAIN contexts

\* C6: _cleanup_old_contexts(max_age_days) completes, removes exactly the
\* contexts last active before now - max_age_days and keeps every profile.
C6_CleanupRemovesStale ==
    [][ret'.op = "cleanup_old_contexts" =>
         /\ ~ret'.raised
         /\ DOMAIN contexts' =
               {u \in DOMAIN contexts :
                   ~Before(objs[contexts[u]].last_activity,
                           MinusDays(Datetime(now'), MaxAgeDays))}
         /\ \A u \in DOMAIN contexts' : contexts'[u] = contexts[u]
         /\ user_profiles' = user_profiles
      ]_vars

\* the clean-up ran on a manager holding a context last active 31 days ago
\* and one last active 29 days ago
C6_Witness ==
    /\ ret.op = "cleanup_old_contexts"
    /\ \E u, v \in DOMAIN contexts :
          /\ objs[contexts[u]].last_activity = Datetime(now - MaxAgeDays - 1)
          /\ objs[contexts[v]].last_activity = Datetime(now - MaxAgeDays + 1)

----------------------------------------------------------------------------
(* Claims on the chatbot and on the response generator *)

\* the message of the last send_message holds one of the tokens
HasToken(tokens) ==
    \E g \in tokens : Contains(g, Lower(ret.message))

\* C7: a message that contains a greeting token, in any case, gets the
\* canned greeting, a message that contains a thanks token gets a canned
\* reply (the thanks, or the greeting when it holds a greeting token too),
\* and no prompt is sent to the generative service in either case, whatever
\* that service would have done.
C7_ShortCircuit ==
    ret.op = "send_message" =>
        /\ HasToken(Greetings) =>
              /\ ret.response = GREETING_REPLY
              /\ ret.prompts = << >>
        /\ HasToken(Thanks) =>
              /\ ret.response =
                    IF HasToken(Greetings) THEN GREETING_REPLY ELSE THANKS_REPLY
              /\ ret.prompts = << >>

\* a capitalised greeting was answered while the service was ready to
\* return a text
C7_Witness ==
    /\ ret.op = "send_message"
    /\ ret.message = M_Bonjour
    /\ ret.o.kind = "text"
    /\ ret.response = GREETING_REPLY

\* the entry the last generate_response matched, as it was before the call
MatchedEntry == genret.before.intents[genret.matched][2]

\* the last generate_response found no FAQ entry and had a client
NoMatchWithClient ==
    /\ genret.op = "generate_response"
    /\ genret.matched = 0
    /\ gemini_client

\* C8: when the FAQ lookup matches an entry, the response has source "faq",
\* its text is the entry's text and the generative service is not called.
C8_FaqSource ==
    (genret.op = "generate_response" /\ genret.matched # 0
        /\ "text" \in DOMAIN MatchedEntry) =>
        /\ genret.result.source = S_faq
        /\ genret.result.text = MatchedEntry.text
        /\ ~genret.called

\* C9: with no FAQ match and a service that returns a non-empty text t,
\* the response has source "generated" and its text is t.
C9_GeneratedSource ==
    (NoMatchWithClient /\ genret.o.kind = "text" /\ Strip(genret.o.text) # << >>) =>
        /\ genret.result.source = S_generated
        /\ genret.result.text = genret.o.text

GenerationFailed ==
    /\ genret.op = "generate_response"
    /\ genret.called
    /\ genret.o.kind \in {"exception", "malformed"}

\* C11: when the generative call of a turn fails (it raises, or what it
\* returns is not a text), generate_response still returns a response, and
\* that response carries a text and the source "error".
C11_FailureIsErrorSourced ==
    GenerationFailed =>
        /\ {"text", "source"} \subseteq DOMAIN genret.result
        /\ genret.result.source = S_error
        /\ genret.result.text # << >>

\* the service returned something that is not a text, for a message that
\* matched nothing in a FAQ table that has entries
C11_Witness ==
    /\ GenerationFailed
    /\ genret.o.kind = "malformed"
    /\ "intents" \in DOMAIN faq
    /\ Len(faq.intents) > 1

\* the sources of the envelope
EnvelopeSources == {S_faq, S_generated, S_fallback, S_error}

\* C12: every response generate_response returns holds text, intent,
\* suggestions, source and timestamp, the suggestions are a list and the
\* source is one of "faq", "generated", "fallback", "error".
C12_UniformEnvelope ==
    genret.op = "generate_response" =>
        /\ {"text", "intent", "suggestions", "source", "timestamp"}
              \subseteq DOMAIN genret.result
        /\ genret.result.source \in EnvelopeSources
        /\ DOMAIN genret.result.suggestions = 1..Len(genret.result.suggestions)

----------------------------------------------------------------------------
(* Claims on serialisation and on the snapshot file *)

\* C13: for every context and profile the manager holds, from_dict(to_dict(x))
\* is x again, field by field, whenever it is loaded; serialising it again
\* gives the same dict; and a manager constructed later from the snapshot
\* of these maps holds the same contexts and profiles.
C13_RoundTrip ==
    /\ \A k \in DOMAIN objs :
          LET d == ContextToDict(objs[k])
          IN  /\ ContextFromDict(d) = objs[k]
              /\ ContextToDict(ContextFromDict(d)) = d
    /\ \A u \in DOMAIN user_profiles :
          LET d == ProfileToDict(user_profiles[u])
          IN  /\ ProfileFromDict(d, now + 1) = user_profiles[u]
              /\ ProfileToDict(ProfileFromDict(d, now + 1)) = d
    /\ LET M == NewManager(JsonFile(Snapshot(Mgr, now)), uuids, now + 1)
       IN  /\ M.contexts = contexts
           /\ M.objs = objs
           /\ M.user_profiles = user_profiles

\* a turn was added to a context created earlier: its history is not empty
\* and its dates, like those of the user's profile, differ from each other
C13_Witness ==
    /\ ret.op = "process_message"
    /\ ret.user \in DOMAIN contexts
    /\ LET c == objs[contexts[ret.user]]
           p == user_profiles[ret.user]
       IN  /\ Len(c.messages) >= 2
           /\ c.created_at # c.last_activity
           /\ p.created_at # p.last_active

\* C14: between operations, when writes succeed, the contexts and profiles
\* of the snapshot file are the serialisation of the complete in-memory
\* maps (no file yet stands for two empty maps).
C14_SnapshotConsistent ==
    /\ disk.state \in {"json", "none"}
    /\ OnDisk.contexts = Snapshot(Mgr, now).contexts
    /\ OnDisk.profiles = Snapshot(Mgr, now).profiles

\* the file holds the turn a process_message has just added and the
\* last_active that call gave the profile, next to another user's context
C14_Witness ==
    /\ ret.op = "process_message"
    /\ disk.state = "json"
    /\ \E v \in DOMAIN disk.data.contexts : v # ret.user
    /\ LET ms == disk.data.contexts[ret.user].messages
       IN  /\ Len(ms) >= 2
           /\ ms[Len(ms) - 1].content = ret.message
           /\ ms[Len(ms)].role = "assistant"
    /\ disk.data.profiles[ret.user].last_active = Isoformat(Datetime(now))
    /\ disk.data.profiles[ret.user].created_at # Isoformat(Datetime(now))

\* C15: a save that fails leaves in the file the complete previous snapshot
\* or the complete new one: every step either leaves the file as it was or
\* leaves in it the serialisation of the maps, and a file that loaded
\* before the step loads after it.
C15_AtomicOverwrite ==
    [][/\ \/ disk' = disk
          \/ disk'.state = "json" /\ InSync'
       /\ (disk.state = "json" /\ Loads(disk)) =>
             (disk'.state = "json" /\ Loads(disk'))
      ]_vars

\* memory after the step is the memory of M
Same(M) ==
    /\ contexts' = M.contexts
    /\ objs' = M.objs
    /\ user_profiles' = M.user_profiles
    /\ conversation_history' = M.history

\* C16: whatever the file system does to the writes of process_message,
\* get_or_create_context, get_user_profile and end_session, the operation
\* does not raise and returns, and leaves in memory, what it returns and
\* leaves when the writes succeed.
C16_BestEffort ==
    [][/\ ret'.op \in {"process_message", "get_or_create_context",
                       "get_user_profile", "end_session"} => ~ret'.raised
       /\ ret'.op = "process_message" =>
             \E o \in OutcomesWith(gemini_client) :
                 LET r == ProcessMessage(Mgr, ret'.user, ret'.message, now', "ok", o)
                 IN  /\ Same(r.M)
                     /\ ~r.raised
                     /\ ret'.result = [response |-> r.response,
                                       context |-> r.context,
                                       user_profile |-> r.user_profile]
       /\ ret'.op = "get_or_create_context" =>
             LET M == GetOrCreateContext(Mgr, ret'.user, now', "ok")
             IN  Same(M) /\ ret'.result = ContextOf(M, ret'.user)
       /\ ret'.op = "get_user_profile" =>
             LET M == GetUserProfile(Mgr, ret'.user, now', "ok")
             IN  Same(M) /\ ret'.result = M.user_profiles[ret'.user]
       /\ ret'.op = "end_session" =>
             /\ Same(EndSession(Mgr, ret'.user, now', "ok"))
             /\ ret'.result = EndSessionResult(Mgr, ret'.user)
      ]_vars

\* a process_message returned its turn although json.dump failed and left
\* the file damaged
C16_Witness ==
    /\ ret.op = "process_message"
    /\ ~ret.raised
    /\ disk.state = "corrupt"
    /\ Len(objs[contexts[ret.user]].messages) >= 2
    /\ ret.result.context.messages = objs[contexts[ret.user]].messages

\* memory holds no context and no profile
BothEmpty ==
    /\ contexts = EmptyDict
    /\ objs = EmptyDict
    /\ user_profiles = EmptyDict

\* C17: constructing the manager does not raise, and over a file that is
\* missing, undecodable or unreadable, or that holds a malformed context or
\* profile entry, both maps start empty; the maps are loaded both or
\* neither.
C17_ColdStart ==
    ret.op = "__init__" =>
        /\ ~ret.raised
        /\ disk.state \in {"none", "corrupt", "unreadable"} => BothEmpty
        /\ disk \in {BadContextFile, BadProfileFile} => BothEmpty
        /\ disk.state = "json" =>
              \/ BothEmpty
              \/ /\ DOMAIN contexts = DOMAIN disk.data.contexts
                 /\ DOMAIN user_profiles = DOMAIN disk.data.profiles

\* the process restarted over a file that a failed json.dump had damaged,
\* after a context had been created
C17_Witness ==
    /\ ret.op = "__init__"
    /\ disk.state = "corrupt"
    /\ uuids > 0
    /\ BothEmpty

----------------------------------------------------------------------------
(* Claims on the manager's responses, on its construction and on the      *)
(* history of one context                                                  *)

\* the replies of send_message that the service did not write
CannedReplies ==
    {GREETING_REPLY, THANKS_REPLY, EMPTY_REPLY, NO_GEMINI_REPLY,
     CHAT_UNAVAILABLE, CHAT_ERROR}

\* C18: the source of the response process_message returns is "generated"
\* only when the generative service wrote the text; a canned greeting or
\* thanks and the message of a failed generation carry another source.
C18_SourceDistinguishes ==
    (ret.op = "process_message" /\ ~ret.raised) =>
        (ret.result.response.text \in CannedReplies =>
            ret.result.response.source # "generated")

\* C19: when the key of the generative service is missing, constructing
\* the manager raises, and no manager processes a message.
C19_InitFailureFatal ==
    ~gemini_client =>
        /\ ret.op = "__init__" => ret.raised
        /\ ret.op # "process_message"

\* the smaller of two numbers
Min(a, b) == IF a <= b THEN a ELSE b

\* C20: after n add_message calls on a context whose max_history is at
\* least 1, its history is the last min(n, max_history) of the messages
\* added, in the order they were added.
C20_FifoEviction ==
    \A k \in DOMAIN objs :
        (ret.op \in {"init", "add_message"} /\ objs[k].max_history >= 1) =>
            LET n == Len(added)
                m == Min(n, objs[k].max_history)
            IN  objs[k].messages = SubSeq(added, n - m + 1, n)

\* more messages were added than a bound of 2 or more keeps
C20_Witness ==
    /\ ret.op = "add_message"
    /\ \E k \in DOMAIN objs :
          /\ objs[k].max_history >= 2
          /\ Len(added) > objs[k].max_history + 1
          /\ Len(objs[k].messages) = objs[k].max_history
          /\ added[1] # added[Len(added)]

----------------------------------------------------------------------------
(* Claims on the turns process_message records and on the profiles *)

\* the history of u's context, empty when u has none
HistoryOf(u) == IF u \in DOMAIN contexts THEN objs[contexts[u]].messages ELSE << >>

\* C21: a process_message(u, m) that returns appends two entries to u's
\* context, a user entry with content m and then an assistant entry with
\* the text of the returned response; both carry the intent of the returned
\* response, which is the context's current_intent after the call.
C21_TwoEntriesPerTurn ==
    [][\A u \in Users :
         (Did("process_message", u) /\ ~ret'.raised) =>
            LET old == HistoryOf(u)
                new == HistoryOf(u)'
                n == Len(new)
                kept == Min(Len(old), DefaultMaxHistory - 2)
                intent == ret'.result.response.intent
            IN  /\ u \in DOMAIN contexts'
                /\ n = kept + 2
                /\ SubSeq(new, 1, kept) = SubSeq(old, Len(old) - kept + 1, Len(old))
                /\ new[n - 1].role = "user"
                /\ new[n - 1].content = ret'.message
                /\ new[n - 1].intent = intent
                /\ new[n].role = "assistant"
                /\ new[n].content = ret'.result.response.text
                /\ new[n].intent = intent
                /\ objs'[contexts'[u]].current_intent = intent
                /\ ret'.result.context.messages = new
                /\ ret'.result.context.current_intent = intent
      ]_vars

\* a turn was recorded after an earlier one in the same context
C21_Witness ==
    /\ ret.op = "process_message"
    /\ ~ret.raised
    /\ LET h == HistoryOf(ret.user)
       IN  /\ Len(h) >= 4
           /\ h[Len(h) - 1].role = "user"
           /\ h[Len(h) - 1].content = ret.message
           /\ h[Len(h)].role = "assistant"
           /\ h[Len(h)].content = ret.result.response.text
           /\ h[Len(h)].intent = GENERAL_CHAT

\* C22: u has a profile from its first process_message on; no operation
\* removes a profile or changes its created_at; last_active never decreases
\* and every process_message(u) sets it to the time of the call.
C22_ProfileLifecycle ==
    [][\A u \in Users :
         /\ Did("process_message", u) =>
               /\ u \in DOMAIN user_profiles'
               /\ user_profiles'[u].last_active = Datetime(now')
         /\ u \in DOMAIN user_profiles =>
               /\ u \in DOMAIN user_profiles'
               /\ user_profiles'[u].created_at = user_profiles[u].created_at
               /\ ~Before(user_profiles'[u].last_active,
                          user_profiles[u].last_active)
         /\ (u \in DOMAIN user_profiles' /\ u \notin DOMAIN user_profiles) =>
               /\ ret'.op \in {"process_message", "get_user_profile"}
               /\ ret'.user = u
               /\ user_profiles'[u].created_at = Datetime(now')
      ]_vars

\* the session of a user whose profile an earlier run created was ended
\* after a message of theirs refreshed the profile
C22_Witness ==
    /\ ret.op = "end_session"
    /\ ret.result = TRUE
    /\ ret.user \in DOMAIN user_profiles
    /\ ret.user \notin DOMAIN contexts
    /\ user_profiles[ret.user].created_at = Datetime(Epoch - 1)
    /\ user_profiles[ret.user].last_active = Datetime(Epoch + MaxTicks)

----------------------------------------------------------------------------
(* Claims on the FAQ lookup and on the canned fallback *)

\* the entries of the table the last generate_response searched
LookedUp ==
    IF "intents" \in DOMAIN genret.before THEN genret.before.intents ELSE << >>

\* the entries whose normalized name is the normalized intent
ExactMatches ==
    {i \in 1..Len(LookedUp) :
        Normalize(LookedUp[i][1]) = Normalize(Str(genret.intent))}

\* the entries whose normalized name contains the normalized intent or is
\* contained in it
PartialMatches ==
    {i \in 1..Len(LookedUp) :
        \/ Contains(Normalize(LookedUp[i][1]), Normalize(Str(genret.intent)))
        \/ Contains(Normalize(Str(genret.intent)), Normalize(LookedUp[i][1]))}

\* the entries one of whose keywords is in the lowercased message
KeywordMatches ==
    {i \in 1..Len(LookedUp) :
        \E k \in 1..Len(Get(LookedUp[i][2], "keywords", << >>)) :
            Contains(Lower(LookedUp[i][2].keywords[k]), Lower(genret.message))}

\* C23: _find_in_faq returns an entry matching the intent exactly if the
\* table has one, wherever it stands; else an entry matching it partially
\* if there is one; else an entry with a keyword in the message; and None
\* only when no entry matches at any tier.
C23_TierOrder ==
    genret.op = "generate_response" =>
        /\ ExactMatches # {} => genret.matched \in ExactMatches
        /\ (ExactMatches = {} /\ PartialMatches # {}) =>
               genret.matched \in PartialMatches
        /\ (ExactMatches = {} /\ PartialMatches = {} /\ KeywordMatches # {}) =>
               genret.matched \in KeywordMatches
        /\ genret.matched = 0 <=>
               ExactMatches \cup PartialMatches \cup KeywordMatches = {}

\* the second entry of the table was returned for its name although the
\* first entry has a keyword in the message
C23_Witness ==
    /\ genret.op = "generate_response"
    /\ genret.matched = 2
    /\ 1 \in KeywordMatches
    /\ 1 \notin ExactMatches \cup PartialMatches

\* the service answered the last generate_response with a text that is
\* empty or made of whitespace
BlankAnswer ==
    /\ genret.o.kind = "text"
    /\ \A i \in 1..Len(genret.o.text) : genret.o.text[i] \in Whitespace

\* C24: when no FAQ entry matches and there is no client, or the service
\* returns an empty or whitespace-only text, generate_response returns one
\* of the three canned templates with source "fallback"; the text of every
\* response is non-empty.
C24_CannedFallback ==
    genret.op = "generate_response" =>
        /\ (genret.matched = 0 /\ (~gemini_client \/ BlankAnswer)) =>
              /\ genret.result.source = S_fallback
              /\ \E k \in 1..Len(FallbackResponses) :
                    genret.result.text = FallbackResponses[k]
              /\ gemini_client = genret.called
        /\ genret.result.text # << >>

\* the service returned spaces for a message no FAQ entry matches
C24_Witness ==
    /\ genret.op = "generate_response"
    /\ genret.matched = 0
    /\ gemini_client
    /\ genret.o = Outcome("text", T_Spaces)
    /\ genret.result.source = S_fallback
    /\ genret.result.text = FallbackResponses[2]

----------------------------------------------------------------------------
(* Claims on the periodic clean-up and on the prompt *)

Shown(h) == [i \in 1..Len(h) |-> Turn(h[i].role, h[i].content)]

\* C26: the prompt sent for a message of u holds, before the new message,
\* at most 6 turns, each one a turn of the conversation u has at that time:
\* no turn of another user and none from before u's last end_session.
C26_PromptIsolation ==
    [][\A u \in Users :
         Did("process_message", u) =>
            \A k \in 1..Len(ret'.prompts) :
                LET turns == ret'.prompts[k].turns
                    own == Shown(HistoryOf(u))
                IN  /\ ret'.prompts[k].message = ret'.message
                    /\ Len(turns) <= PromptTurns
                    /\ \A i \in 1..(Len(turns) - 1) :
                          \E j \in 1..Len(own) : own[j] = turns[i]
      ]_vars

----------------------------------------------------------------------------
(* Claims on concurrent calls *)

\* the step resumes the suspended call k and runs it to its end
Resumed(k) ==
    /\ k \in DOMAIN pending
    /\ k \notin DOMAIN pending'
    /\ ret'.op = "process_message"
    /\ ret'.task = k

\* C27: calls of process_message for one user that are suspended together,
\* with no end_session(u) meanwhile, refer to one context, the live context
\* of u, and u has a profile; each call, when it resumes, appends its user
\* entry and right after it its own assistant entry to that context and
\* leaves the entries of the other calls in place.
C27_ConcurrentSameUser ==
    [][/\ \A k \in DOMAIN pending' :
             ~pending'[k].ended =>
                /\ pending'[k].user \in DOMAIN contexts'
                /\ contexts'[pending'[k].user] = pending'[k].sid
                /\ pending'[k].user \in DOMAIN user_profiles'
       /\ \A k \in DOMAIN pending :
             (Resumed(k) /\ ~pending[k].ended) =>
                LET u == pending[k].user
                    old == HistoryOf(u)
                    new == objs'[pending[k].sid].messages
                    n == Len(new)
                IN  /\ ~ret'.raised
                    /\ u \in DOMAIN contexts'
                    /\ contexts'[u] = pending[k].sid
                    /\ ret'.result.context.session_id = pending[k].sid
                    /\ ret'.result.context.messages = new
                    /\ n = Len(old) + 2
                    /\ SubSeq(new, 1, n - 2) = old
                    /\ new[n - 1].role = "user"
                    /\ new[n - 1].content = pending[k].message
                    /\ new[n].role = "assistant"
                    /\ new[n].content = ret'.result.response.text
      ]_vars

\* two calls of one user were suspended together and the second resumed
\* first: the user's only context holds the second call's turn, then the
\* first call's, which got another answer
C27_Witness ==
    /\ pending = << >>
    /\ ret.op = "process_message"
    /\ ret.task = 1
    /\ uuids = 1
    /\ LET h == HistoryOf(ret.user)
       IN  /\ Len(h) = 4
           /\ h[1].role = "user" /\ h[1].content = M_Vol
           /\ h[2].role = "assistant"
           /\ h[3].role = "user" /\ h[3].content = M_Cv
           /\ h[4].role = "assistant"
           /\ h[4].content = ret.result.response.text
           /\ h[2].content # h[4].content

\* C28: when end_session(u) has run while a process_message(u, m) was
\* suspended, the call resumes on the context it fetched before: it
\* returns that context with the turn for m, but the context is in no
\* entry of the contexts map and in no entry of the snapshot, and when u
\* has no context at that point the snapshot records none for u.
C28_LostUpdate ==
    [][\A k \in DOMAIN pending :
         (Resumed(k) /\ pending[k].ended /\ ~ret'.raised) =>
            LET u == pending[k].user
                sid == pending[k].sid
                returned == ret'.result.context
                n == Len(returned.messages)
            IN  /\ returned.session_id = sid
                /\ returned.messages[n - 1].content = pending[k].message
                /\ returned.messages[n].content = ret'.result.response.text
                /\ \A v \in DOMAIN contexts' : contexts'[v] # sid
                /\ disk'.state = "json"
                /\ \A v \in DOMAIN disk'.data.contexts :
                      disk'.data.contexts[v].session_id # sid
                /\ u \notin DOMAIN contexts' => u \notin DOMAIN disk'.data.contexts
      ]_vars

\* a call returned a context with its turn after the session was ended
\* during its await: the manager holds no context and the snapshot none
C28_Witness ==
    /\ ret.op = "process_message"
    /\ ret.task = 1
    /\ ~ret.raised
    /\ Len(ret.result.context.messages) = 2
    /\ ret.result.context.messages[1].content = ret.message
    /\ contexts = EmptyDict
    /\ objs = EmptyDict
    /\ disk.state = "json"
    /\ disk.data.contexts = EmptyDict
    /\ ret.user \in DOMAIN disk.data.profiles

----------------------------------------------------------------------------
(* Claims on the bound of a context built with any max_history and on     *)
(* calls that raise                                                        *)

\* C29: whatever non-negative max_history a context was constructed with,
\* 0 included, it holds at most max_history messages after every
\* add_message.
C29_BoundForEveryMax ==
    \A k \in DOMAIN objs :
        /\ objs[k].max_history >= 0
        /\ Len(objs[k].messages) <= objs[k].max_history

\* C30: a process_message call that raises leaves the contexts, the
\* profiles and the snapshot file as they were before the call.
C30_FailureAtomicity ==
    [][(ret'.op = "process_message" /\ ret'.raised) =>
          /\ contexts' = contexts
          /\ objs' = objs
          /\ user_profiles' = user_profiles
          /\ disk' = disk
      ]_vars

====
